---- MODULE Spec2Model ----
(***************************************************************************)
(* babel-plugin-syntax-exists (src/src/index.js): a Babel visitor that     *)
(* replaces every member access whose property is named "ex" by a guarded  *)
(* conditional expression.  The model holds the expression tree, the       *)
(* host's depth-first traversal position and a record of the last callback *)
(* invocation; one action invokes the MemberExpression callback on the     *)
(* node under the cursor.                                                  *)
(***************************************************************************)
EXTENDS Integers, Sequences, FiniteSets, TLC

\* Nesting depth of the generated input expressions.
MaxDepth == 3
\* Number of traversal passes the host runs over the same tree.
MaxPasses == 2

VARIABLES
    tree,       \* the program's expression tree (owned by the host)
    cursor,     \* position (child indices from the root) the host visits next
    pc,         \* "visit" | "done" | "fault" (an uncaught exception ended the run)
    pass,       \* number of the running traversal pass
    passStart,  \* the tree as it was when the running pass began
    nMatch,     \* callback invocations of this pass on a node named "ex"
    nSubst,     \* path.replaceWith calls of this pass
    ev          \* the last callback invocation of this pass

vars == <<tree, cursor, pc, pass, passStart, nMatch, nSubst, ev>>

(***************************************************************************)
(* AST nodes.  Every node is a record of one shape; `name` is the          *)
(* identifier name (JavaScript `undefined` for every node that is not an   *)
(* Identifier), `value` a literal's value, `op` an operator ("." and "[]"  *)
(* for a plain and a computed member access), `kids` the children in       *)
(* babel-types' visiting order.                                            *)
(***************************************************************************)
Undefined == "<undefined>"

Node(type, op, name, value, kids) ==
    [type |-> type, op |-> op, name |-> name, value |-> value, kids |-> kids]

\* The value of `path.parent` when the path has no parent.
NoNode == Node(Undefined, Undefined, Undefined, Undefined, <<>>)

\* babel-types builders used by the plugin (the `t` argument).
binaryExpression(op, left, right) ==
    Node("BinaryExpression", op, Undefined, Undefined, <<left, right>>)

logicalExpression(op, left, right) ==
    Node("LogicalExpression", op, Undefined, Undefined, <<left, right>>)

unaryExpression(op, argument) ==
    Node("UnaryExpression", op, Undefined, Undefined, <<argument>>)

conditionalExpression(test, consequent, alternate) ==
    Node("ConditionalExpression", Undefined, Undefined, Undefined,
         <<test, consequent, alternate>>)

callExpression(callee, arguments) ==
    Node("CallExpression", Undefined, Undefined, Undefined, <<callee>> \o arguments)

Identifier(name) == Node("Identifier", Undefined, name, Undefined, <<>>)

stringLiteral(value) == Node("StringLiteral", Undefined, Undefined, value, <<>>)

numericLiteral(value) == Node("NumericLiteral", Undefined, Undefined, value, <<>>)

booleanLiteral(value) == Node("BooleanLiteral", Undefined, Undefined, value, <<>>)

nullLiteral == Node("NullLiteral", Undefined, Undefined, Undefined, <<>>)

\* Field accessors of a MemberExpression / CallExpression node.
object(node) == node.kids[1]

property(node) == node.kids[2]

arguments(node) == SubSeq(node.kids, 2, Len(node.kids))

(***************************************************************************)
(* Guard builders.  A path is [node, parent]: the node, and its parent     *)
(* node or NoNode.                                                         *)
(***************************************************************************)
isNotExp(comparate_left, comparate_right) ==
    binaryExpression("!==", comparate_left, comparate_right)

isNotTypeofExp(path, type_string) ==
    isNotExp(unaryExpression("typeof", object(path.node)), stringLiteral(type_string))

isNotTypeUndefinedExp(path) == isNotTypeofExp(path, "undefined")

\* The left operand is an identifier made of the PROPERTY's name.
isNotNullExp(path) == isNotExp(Identifier(property(path.node).name), nullLiteral)

isNotTypeFunction(path) == isNotTypeofExp(path, "function")

isNotTypeUndefinedAndNotNullExp(path) ==
    logicalExpression("&&", isNotTypeUndefinedExp(path), isNotNullExp(path))

isNotTypeUndefinedAndNotNullAndNotTypeFunctionExp(path) ==
    logicalExpression("&&", isNotTypeUndefinedAndNotNullExp(path), isNotTypeFunction(path))

(***************************************************************************)
(* Classifier.  Reading `.type` of an absent parent is a TypeError; the    *)
(* *Throws operators say when a function raises instead of returning.      *)
(***************************************************************************)
\* Mutant: the parent is tested before its type is read, so nothing raises.
childExistsThrows_parentTested(path) == FALSE

childExistsThrows(path) == path.parent = NoNode

childExists(path) == path.parent.type # "ExpressionStatement"

isCalleeThrows(path) == path.parent = NoNode

isCallee(path) == path.parent.type = "CallExpression"

(***************************************************************************)
(* Branch factories: member access, call position, and the selectors.      *)
(***************************************************************************)
testMemberExp(path) == isNotTypeUndefinedAndNotNullExp(path)

consequentMemberExp(path) ==
    IF childExists(path) THEN object(path.node) ELSE booleanLiteral("true")

alternativeMemberExp(path) ==
    IF childExists(path)
    THEN unaryExpression("void", numericLiteral("0"))
    ELSE booleanLiteral("false")

testCallExp(path) == isNotTypeUndefinedAndNotNullAndNotTypeFunctionExp(path)

\* The callee handed to the builder is the path handle itself, not its node.
consequentCallExp(path) == callExpression(path, arguments(path.parent))

alternativeCallExp(path) ==
    IF childExists(path)
    THEN unaryExpression("void", numericLiteral("0"))
    ELSE booleanLiteral("false")

testExpression(path) ==
    IF isCallee(path) THEN testCallExp(path) ELSE testMemberExp(path)

consequentExpression(path) ==
    IF isCallee(path) THEN consequentCallExp(path) ELSE consequentMemberExp(path)

alternativeExpression(path) ==
    IF isCallee(path) THEN alternativeCallExp(path) ELSE alternativeMemberExp(path)

(***************************************************************************)
(* Rewrite engine and visitor.                                             *)
(***************************************************************************)
\* The arguments are evaluated in order: the test is built, then the
\* consequent reads path.parent.type.
existentialExpressionThrows(path) == childExistsThrows(path)

existentialExpression(path) ==
    conditionalExpression(testMemberExp(path),
                          consequentMemberExp(path),
                          alternativeMemberExp(path))

\* Mutant: the test of the name is missing, every member access is rewritten.
MemberExpression_unguarded(path) ==
    IF existentialExpressionThrows(path)
    THEN [outcome |-> "TypeError", node |-> path.node]
    ELSE [outcome |-> "replaceWith", node |-> existentialExpression(path)]

\* Mutant: the plugin remembers that it has rewritten and rewrites only once
\* per pass.
MemberExpression_firstOnly(path) ==
    LET name == property(path.node).name IN
    IF name = "ex" /\ nSubst = 0
    THEN IF existentialExpressionThrows(path)
         THEN [outcome |-> "TypeError", node |-> path.node]
         ELSE [outcome |-> "replaceWith", node |-> existentialExpression(path)]
    ELSE [outcome |-> "none", node |-> path.node]

\* Mutant: computed accesses, a[ex], are left alone.
MemberExpression_plainOnly(path) ==
    LET name == property(path.node).name IN
    IF name = "ex" /\ path.node.op = "."
    THEN IF existentialExpressionThrows(path)
         THEN [outcome |-> "TypeError", node |-> path.node]
         ELSE [outcome |-> "replaceWith", node |-> existentialExpression(path)]
    ELSE [outcome |-> "none", node |-> path.node]

\* Mutant: a property without a name is matched by its literal value.
MemberExpression_nameOrValue(path) ==
    LET name == IF property(path.node).name # Undefined
                THEN property(path.node).name
                ELSE property(path.node).value IN
    IF name = "ex"
    THEN IF existentialExpressionThrows(path)
         THEN [outcome |-> "TypeError", node |-> path.node]
         ELSE [outcome |-> "replaceWith", node |-> existentialExpression(path)]
    ELSE [outcome |-> "none", node |-> path.node]

\* The callback's effect: "replaceWith" with the node it hands to
\* path.replaceWith, "none" when it returns without touching the path,
\* "TypeError" when it raises before path.replaceWith is reached.
MemberExpression(path) ==
    LET name == property(path.node).name IN
    IF name = "ex"
    THEN IF existentialExpressionThrows(path)
         THEN [outcome |-> "TypeError", node |-> path.node]
         ELSE [outcome |-> "replaceWith", node |-> existentialExpression(path)]
    ELSE [outcome |-> "none", node |-> path.node]

(***************************************************************************)
(* The host's side of the contract: positions, the path it hands to the    *)
(* callback, substitution, and depth-first order.  A replaced node is      *)
(* requeued, so the traversal goes on into the replacement's children.     *)
(***************************************************************************)
RECURSIVE NodeAt(_, _)
NodeAt(t, p) == IF p = <<>> THEN t ELSE NodeAt(t.kids[Head(p)], Tail(p))

RECURSIVE replaceWith(_, _, _)
replaceWith(t, p, replacement) ==
    IF p = <<>>
    THEN replacement
    ELSE [t EXCEPT !.kids[Head(p)] = replaceWith(@, Tail(p), replacement)]

Front(p) == SubSeq(p, 1, Len(p) - 1)

PathAt(t, p) ==
    [node |-> NodeAt(t, p),
     parent |-> IF p = <<>> THEN NoNode ELSE NodeAt(t, Front(p))]

\* The cursor's value once every node has been visited.
End == <<0>>

RECURSIVE NextSibling(_, _)
NextSibling(t, p) ==
    IF p = <<>>
    THEN End
    ELSE IF p[Len(p)] < Len(NodeAt(t, Front(p)).kids)
         THEN Append(Front(p), p[Len(p)] + 1)
         ELSE NextSibling(t, Front(p))

Successor(t, p) ==
    IF Len(NodeAt(t, p).kids) > 0 THEN Append(p, 1) ELSE NextSibling(t, p)

(***************************************************************************)
(* Input programs: a base identifier wrapped up to MaxDepth times.         *)
(***************************************************************************)
memberExpression(obj, prop, computed) ==
    Node("MemberExpression", IF computed THEN "[]" ELSE ".", Undefined, Undefined,
         <<obj, prop>>)

assignmentExpression(left, right) ==
    Node("AssignmentExpression", "=", Undefined, Undefined, <<left, right>>)

expressionStatement(expression) ==
    Node("ExpressionStatement", Undefined, Undefined, Undefined, <<expression>>)

program(body) == Node("Program", Undefined, Undefined, Undefined, body)

Wrappers ==
    {"e.ex", "e.x", "e[ex]", "e['ex']", "e[0]", "x[e]", "e(c)", "f(e, b.ex)", "b = e"}

Wrap(w, e) ==
    CASE w = "e.ex"       -> memberExpression(e, Identifier("ex"), FALSE)
      [] w = "e.x"        -> memberExpression(e, Identifier("x"), FALSE)
      [] w = "e[ex]"      -> memberExpression(e, Identifier("ex"), TRUE)
      [] w = "e['ex']"    -> memberExpression(e, stringLiteral("ex"), TRUE)
      [] w = "e[0]"       -> memberExpression(e, numericLiteral("0"), TRUE)
      [] w = "x[e]"       -> memberExpression(Identifier("x"), e, TRUE)
      [] w = "e(c)"       -> callExpression(e, <<Identifier("c")>>)
      [] w = "f(e, b.ex)" -> callExpression(Identifier("f"),
                                 <<e, memberExpression(Identifier("b"), Identifier("ex"), FALSE)>>)
      [] w = "b = e"      -> assignmentExpression(Identifier("b"), e)

RECURSIVE Build(_)
Build(ws) ==
    IF ws = <<>> THEN Identifier("a") ELSE Wrap(ws[Len(ws)], Build(Front(ws)))

Expressions == {Build(ws) : ws \in UNION {[1..n -> Wrappers] : n \in 0..MaxDepth}}

\* Programs as the host's parser hands them over: every expression sits in a
\* statement of a Program.
Programs == {program(<<expressionStatement(e)>>) : e \in Expressions}

\* Detached expressions: the root is the expression itself and has no parent.
Detached == Expressions

NoEvent == [kind |-> "none", at |-> <<>>, before |-> NoNode, substBefore |-> 0]

InitOn(inputs) ==
    /\ tree \in inputs
    /\ passStart = tree
    /\ cursor = <<>>
    /\ pc = "visit"
    /\ pass = 1
    /\ nMatch = 0
    /\ nSubst = 0
    /\ ev = NoEvent

Init == InitOn(Programs)

InitDetached == InitOn(Detached)

\* The host steps over a node no callback is registered for.
Enter ==
    /\ pc = "visit"
    /\ cursor # End
    /\ NodeAt(tree, cursor).type # "MemberExpression"
    /\ cursor' = Successor(tree, cursor)
    /\ UNCHANGED <<tree, pc, pass, passStart, nMatch, nSubst, ev>>

\* The host invokes the MemberExpression callback on the node under the
\* cursor and commits the substitution the callback requests.
Visit ==
    /\ pc = "visit"
    /\ cursor # End
    /\ NodeAt(tree, cursor).type = "MemberExpression"
    /\ LET path == PathAt(tree, cursor)
           r == MemberExpression(path)
           kind == CASE r.outcome = "replaceWith" -> "replaced"
                     [] r.outcome = "TypeError"   -> "threw"
                     [] r.outcome = "none"        -> "untouched"
       IN /\ tree' = IF r.outcome = "replaceWith"
                     THEN replaceWith(tree, cursor, r.node)
                     ELSE tree
          /\ nSubst' = IF r.outcome = "replaceWith" THEN nSubst + 1 ELSE nSubst
          /\ nMatch' = IF property(path.node).type = "Identifier"
                          /\ property(path.node).name = "ex"
                       THEN nMatch + 1 ELSE nMatch
          /\ pc' = IF r.outcome = "TypeError" THEN "fault" ELSE "visit"
          /\ cursor' = IF r.outcome = "TypeError" THEN cursor ELSE Successor(tree', cursor)
          /\ ev' = [kind |-> kind, at |-> cursor, before |-> tree, substBefore |-> nSubst]
    /\ UNCHANGED <<pass, passStart>>

\* The traversal has run off the tree: the pass is complete.
Finish ==
    /\ pc = "visit"
    /\ cursor = End
    /\ pc' = "done"
    /\ UNCHANGED <<tree, cursor, pass, passStart, nMatch, nSubst, ev>>

\* The transform is run again over its own output.
Rerun ==
    /\ pc = "done"
    /\ pass < MaxPasses
    /\ pass' = pass + 1
    /\ passStart' = tree
    /\ cursor' = <<>>
    /\ pc' = "visit"
    /\ nMatch' = 0
    /\ nSubst' = 0
    /\ ev' = NoEvent
    /\ UNCHANGED tree

Next == Enter \/ Visit \/ Finish \/ Rerun

Spec == Init /\ [][Next]_vars

SpecDetached == InitDetached /\ [][Next]_vars

(***************************************************************************)
(* Vocabulary of the properties.                                           *)
(***************************************************************************)
RECURSIVE Positions(_)
Positions(t) ==
    {<<>>} \cup UNION {{<<i>> \o q : q \in Positions(t.kids[i])} : i \in 1..Len(t.kids)}

\* A member access whose property is an identifier named "ex".
IsExAccess(n) ==
    /\ n.type = "MemberExpression"
    /\ property(n).type = "Identifier"
    /\ property(n).name = "ex"

ExPositions(t) == {p \in Positions(t) : IsExAccess(NodeAt(t, p))}

\* Some node of t is a member access named "ex".
RECURSIVE HasEx(_)
HasEx(t) == IsExAccess(t) \/ \E i \in 1..Len(t.kids) : HasEx(t.kids[i])

NoEx(t) == ~HasEx(t)

\* p is a position of t.
RECURSIVE IsPosition(_, _)
IsPosition(t, p) ==
    \/ p = <<>>
    \/ /\ p # <<>>
       /\ Head(p) \in 1..Len(t.kids)
       /\ IsPosition(t.kids[Head(p)], Tail(p))

RECURSIVE HasMember(_)
HasMember(t) ==
    t.type = "MemberExpression" \/ \E i \in 1..Len(t.kids) : HasMember(t.kids[i])

\* Some conditional expression of t has a conditional expression as consequent.
RECURSIVE HasChainedReplacement(_)
HasChainedReplacement(t) ==
    \/ t.type = "ConditionalExpression" /\ t.kids[2].type = "ConditionalExpression"
    \/ \E i \in 1..Len(t.kids) : HasChainedReplacement(t.kids[i])

\* Some string literal of t is "function".
RECURSIVE HasFunctionGuard(_)
HasFunctionGuard(t) ==
    \/ t.type = "StringLiteral" /\ t.value = "function"
    \/ \E i \in 1..Len(t.kids) : HasFunctionGuard(t.kids[i])

\* Trees a and b agree everywhere but in the subtree at position p.
RECURSIVE SameExcept(_, _, _)
SameExcept(a, b, p) ==
    \/ p = <<>>
    \/ /\ p # <<>>
       /\ a.type = b.type /\ a.op = b.op /\ a.name = b.name /\ a.value = b.value
       /\ Len(a.kids) = Len(b.kids)
       /\ \A i \in 1..Len(a.kids) :
             IF i = Head(p)
             THEN SameExcept(a.kids[i], b.kids[i], Tail(p))
             ELSE a.kids[i] = b.kids[i]

\* exists(x): x is not undefined and x is not null, both about x.
Exists(x) ==
    Node("LogicalExpression", "&&", Undefined, Undefined,
         << Node("BinaryExpression", "!==", Undefined, Undefined,
                 << Node("UnaryExpression", "typeof", Undefined, Undefined, <<x>>),
                    Node("StringLiteral", Undefined, Undefined, "undefined", <<>>) >>),
            Node("BinaryExpression", "!==", Undefined, Undefined,
                 << x, Node("NullLiteral", Undefined, Undefined, Undefined, <<>>) >>) >>)

\* The guard as the code builds it: the null comparison is about the
\* identifier `ex`, not about x.
ExistsAsBuilt(x) ==
    Node("LogicalExpression", "&&", Undefined, Undefined,
         << Node("BinaryExpression", "!==", Undefined, Undefined,
                 << Node("UnaryExpression", "typeof", Undefined, Undefined, <<x>>),
                    Node("StringLiteral", Undefined, Undefined, "undefined", <<>>) >>),
            Node("BinaryExpression", "!==", Undefined, Undefined,
                 << Node("Identifier", Undefined, "ex", Undefined, <<>>),
                    Node("NullLiteral", Undefined, Undefined, Undefined, <<>>) >>) >>)

Cond(test, consequent, alternate) ==
    Node("ConditionalExpression", Undefined, Undefined, Undefined,
         <<test, consequent, alternate>>)

True == Node("BooleanLiteral", Undefined, Undefined, "true", <<>>)

False == Node("BooleanLiteral", Undefined, Undefined, "false", <<>>)

Void0 ==
    Node("UnaryExpression", "void", Undefined, Undefined,
         << Node("NumericLiteral", Undefined, Undefined, "0", <<>>) >>)

\* The last callback invocation: the node it was given, that node's parent,
\* and what stands at the node's position now.
Visited == ev.kind # "none"

EvNode == NodeAt(ev.before, ev.at)

EvParent == PathAt(ev.before, ev.at).parent

EvNow == NodeAt(tree, ev.at)

EvInStatement == ev.at # <<>> /\ EvParent.type = "ExpressionStatement"

EvConsumed == ev.at # <<>> /\ EvParent.type # "ExpressionStatement"

EvIsCallee == ev.at # <<>> /\ EvParent.type = "CallExpression" /\ ev.at[Len(ev.at)] = 1


(***************************************************************************)
(* C1.  An "ex" access that is the whole of an expression statement is     *)
(* replaced by  exists(a) ? true : false,  where both comparisons of       *)
(* exists(a) are about the base object a.                                  *)
(***************************************************************************)
C1_StatementPosition ==
    (Visited /\ IsExAccess(EvNode) /\ EvInStatement)
        => /\ ev.kind = "replaced"
           /\ EvNow = Cond(Exists(object(EvNode)), True, False)

\* What the code does there: the same shape, with the guard as built.
C1_AsBuilt ==
    (Visited /\ IsExAccess(EvNode) /\ EvInStatement)
        => /\ ev.kind = "replaced"
           /\ EvNow = Cond(ExistsAsBuilt(object(EvNode)), True, False)

(***************************************************************************)
(* C2.  An "ex" access whose parent is anything but an expression          *)
(* statement is replaced by  exists(a) ? a : void 0,  and nothing else of  *)
(* the tree changes.                                                       *)
(***************************************************************************)
C2_ConsumedPosition ==
    (Visited /\ IsExAccess(EvNode) /\ EvConsumed)
        => /\ ev.kind = "replaced"
           /\ EvNow = Cond(Exists(object(EvNode)), object(EvNode), Void0)
           /\ SameExcept(ev.before, tree, ev.at)

C2_AsBuilt ==
    (Visited /\ IsExAccess(EvNode) /\ EvConsumed)
        => /\ ev.kind = "replaced"
           /\ EvNow = Cond(ExistsAsBuilt(object(EvNode)), object(EvNode), Void0)
           /\ SameExcept(ev.before, tree, ev.at)

(***************************************************************************)
(* C3.  A callback invocation on a member access whose property is not     *)
(* named "ex" requests no substitution and leaves the whole tree as it     *)
(* was; a pass over a tree without any "ex" access changes nothing, in the *)
(* first pass and in every later one.                                      *)
(***************************************************************************)
C3_NonMatchUntouched ==
    /\ (Visited /\ ~IsExAccess(EvNode))
          => /\ ev.kind = "untouched"
             /\ tree = ev.before
             /\ nSubst = ev.substBefore
    /\ NoEx(passStart) => (tree = passStart /\ nSubst = 0)

C3_Witness ==
    /\ pass = 2 /\ pc = "done"
    /\ ev.kind = "untouched"
    /\ NoEx(passStart)
    /\ HasMember(tree)

(***************************************************************************)
(* C4.  In every pass the substitutions requested are as many as the       *)
(* callback invocations on a node named "ex"; a substitution puts a new    *)
(* conditional expression at the matched node's own position and changes   *)
(* nothing else; and the replacement of a match that stood in the tree     *)
(* when the pass began is the one the rewrite builds for it in that tree,  *)
(* whatever has been rewritten in between.                                 *)
(***************************************************************************)
C4_OneSubstitutionPerMatch ==
    /\ nSubst = nMatch
    /\ ev.kind = "replaced"
          => /\ IsExAccess(EvNode)
             /\ nSubst = ev.substBefore + 1
             /\ EvNow.type = "ConditionalExpression"
             /\ SameExcept(ev.before, tree, ev.at)
             /\ (IsPosition(passStart, ev.at) /\ NodeAt(passStart, ev.at) = EvNode)
                   => EvNow = existentialExpression(PathAt(passStart, ev.at))

\* The second of two independent matches, f(.., b.ex), has been rewritten
\* after the first.
C4_Witness ==
    /\ ev.kind = "replaced"
    /\ nSubst >= 2
    /\ IsPosition(passStart, ev.at)
    /\ NodeAt(passStart, ev.at) = EvNode
    /\ ev.before # passStart
    /\ EvParent.type = "CallExpression"

(***************************************************************************)
(* C5.  A completed pass leaves no member access named "ex" in the tree,   *)
(* chained accesses such as a.ex.ex included; a later pass over that       *)
(* output matches nothing and changes nothing.                             *)
(***************************************************************************)
C5_SecondPassNoOp ==
    /\ pc = "done" => NoEx(tree)
    /\ pass >= 2 => (tree = passStart /\ nMatch = 0 /\ nSubst = 0)

\* The second pass is over, and the tree holds a replacement whose
\* consequent (the reused base object) was itself a match.
C5_Witness ==
    /\ pass = 2 /\ pc = "done"
    /\ HasChainedReplacement(tree)

(***************************************************************************)
(* C6.  The replacement is always the member-access branch: a match in     *)
(* callee position, a.ex(..), becomes  exists(a) ? a : void 0  inside the  *)
(* unchanged call, and no `typeof .. !== "function"` guard is ever built.  *)
(***************************************************************************)
C6_MemberBranchAlways ==
    /\ ~HasFunctionGuard(tree)
    /\ (Visited /\ IsExAccess(EvNode) /\ EvIsCallee)
          => /\ ev.kind = "replaced"
             /\ EvNow = Cond(Exists(object(EvNode)), object(EvNode), Void0)
             /\ SameExcept(ev.before, tree, ev.at)

C6_AsBuilt ==
    /\ ~HasFunctionGuard(tree)
    /\ (Visited /\ IsExAccess(EvNode) /\ EvIsCallee)
          => /\ ev.kind = "replaced"
             /\ EvNow = Cond(ExistsAsBuilt(object(EvNode)), object(EvNode), Void0)
             /\ SameExcept(ev.before, tree, ev.at)

(***************************************************************************)
(* C7.  The guard built for a matched node is                              *)
(* typeof base !== "undefined" && base !== null,  the null comparison      *)
(* being about the base object too.                                        *)
(***************************************************************************)
C7_NullGuardOnBase ==
    \A p \in ExPositions(tree) :
        isNotTypeUndefinedAndNotNullExp(PathAt(tree, p)) = Exists(object(NodeAt(tree, p)))

C7_AsBuilt ==
    \A p \in ExPositions(tree) :
        isNotTypeUndefinedAndNotNullExp(PathAt(tree, p))
            = ExistsAsBuilt(object(NodeAt(tree, p)))

(***************************************************************************)
(* C8.  isCallee holds of a path exactly when the parent is a call and the *)
(* node is that call's callee; it is false of a call's argument.           *)
(***************************************************************************)
C8_CalleeOnly ==
    \A p \in Positions(tree) :
        (p # <<>> /\ NodeAt(tree, p).type = "MemberExpression")
            => (isCallee(PathAt(tree, p))
                    <=> /\ NodeAt(tree, Front(p)).type = "CallExpression"
                        /\ p[Len(p)] = 1)

C8_AsBuilt ==
    \A p \in Positions(tree) :
        (p # <<>> /\ NodeAt(tree, p).type = "MemberExpression")
            => (isCallee(PathAt(tree, p))
                    <=> NodeAt(tree, Front(p)).type = "CallExpression")

(***************************************************************************)
(* C9.  Invoked on an "ex" access that has no parent, the callback raises: *)
(* the run ends with the fault, no substitution is requested and the tree  *)
(* is as it was.                                                           *)
(***************************************************************************)
C9_RootRaises ==
    (Visited /\ IsExAccess(EvNode) /\ ev.at = <<>>)
        => /\ ev.kind = "threw"
           /\ pc = "fault"
           /\ tree = ev.before
           /\ nSubst = ev.substBefore

C9_Witness == ev.kind = "threw" /\ ev.at = <<>> /\ IsExAccess(tree)

(***************************************************************************)
(* C10.  As claimed: invoked on a member access whose property has no      *)
(* identifier name (a["ex"]), the callback raises.                         *)
(***************************************************************************)
C10_NamelessRaises ==
    (Visited /\ property(EvNode).name = Undefined) => ev.kind = "threw"

(***************************************************************************)
(* C10, amended.  Invoked on a member access whose property has no         *)
(* identifier name, the callback reads `undefined` for the name, raises    *)
(* nothing and treats the node as a non-match: no substitution, the tree   *)
(* unchanged, the traversal goes on.                                       *)
(***************************************************************************)
C10_NamelessIsNonMatch ==
    (Visited /\ property(EvNode).name = Undefined)
        => /\ ev.kind = "untouched"
           /\ pc # "fault"
           /\ tree = ev.before
           /\ nSubst = ev.substBefore

C10_Witness ==
    /\ ev.kind = "untouched"
    /\ property(EvNode).type = "StringLiteral"
    /\ property(EvNode).value = "ex"

====
